---- MODULE Spec2Model ----
(***************************************************************************)
(* The line-search server of algorithm_6_server.py: the accept loop, the   *)
(* per-connection handler handle_client, the keyed-hash check, the two     *)
(* file-access modes and the regular-expression search, together with the  *)
(* request frames its clients send.                                        *)
(*                                                                         *)
(* A byte or a character is a token (a string): "a" is the letter a, NUL   *)
(* the byte 0x00, and a digest byte is a token naming what was hashed.  A  *)
(* text or a byte string is a sequence of tokens.                          *)
(***************************************************************************)
EXTENDS Integers, Sequences, FiniteSets, TLC

\* ------------------------------------------------------------------------
\* Bounds of the model
\* ------------------------------------------------------------------------
NumConns == 2        \* connections the accept loop hands to handler threads
MaxQueryLen == 2     \* longest query text of the search-step specification
MaxFileLen == 3      \* longest dataset text of the search-step specification

Conns == 1..NumConns

\* ------------------------------------------------------------------------
\* Characters
\* ------------------------------------------------------------------------
NUL == "NUL"
NL == "\n"
SP == " "
BSL == "\\"
SQ == "'"
DQ == "\""

None == <<"None">>

Range(s) == { s[i] : i \in 1..Len(s) }

\* str.strip() with no argument removes these (the whitespace of the model's alphabet)
Whitespace == { SP, NL, "\t", "\r", "\f" }

\* ------------------------------------------------------------------------
\* Python string operations used by handle_client
\* ------------------------------------------------------------------------
RECURSIVE RStripSet(_, _)
RStripSet(s, chars) ==
    IF s # <<>> /\ s[Len(s)] \in chars
    THEN RStripSet(SubSeq(s, 1, Len(s) - 1), chars)
    ELSE s

RECURSIVE LStripSet(_, _)
LStripSet(s, chars) ==
    IF s # <<>> /\ s[1] \in chars
    THEN LStripSet(Tail(s), chars)
    ELSE s

\* .rstrip('\x00')
RStripNul(s) == RStripSet(s, {NUL})

\* .strip()
Strip(s) == LStripSet(RStripSet(s, Whitespace), Whitespace)

\* the characters re.escape puts a backslash before
SpecialChars ==
    { "(", ")", "[", "]", "{", "}", "?", "*", "+", "-", "|", "^", "$",
      BSL, ".", "&", "~", "#", SP, "\t", NL, "\r", "\f" }

\* a search that forgets re.escape
re_escape_omitted(s) == s

\* re.escape, on a str or on a bytes value alike
RECURSIVE re_escape(_)
re_escape(s) ==
    IF s = <<>> THEN <<>>
    ELSE (IF s[1] \in SpecialChars THEN <<BSL, s[1]>> ELSE <<s[1]>>)
         \o re_escape(Tail(s))

\* repr() of a bytes value, which is what formatting it into an f-string gives
BytesQuote(b) == IF SQ \in Range(b) /\ DQ \notin Range(b) THEN DQ ELSE SQ

ReprByte(x, quote) ==
    CASE x = BSL   -> <<BSL, BSL>>
      [] x = NL    -> <<BSL, "n">>
      [] x = "\t"  -> <<BSL, "t">>
      [] x = "\r"  -> <<BSL, "r">>
      [] x = NUL   -> <<BSL, "x", "0", "0">>
      [] x = quote -> <<BSL, x>>
      [] OTHER     -> <<x>>

RECURSIVE ReprBody(_, _)
ReprBody(b, quote) ==
    IF b = <<>> THEN <<>>
    ELSE ReprByte(b[1], quote) \o ReprBody(Tail(b), quote)

BytesRepr(b) == <<"b", BytesQuote(b)>> \o ReprBody(b, BytesQuote(b)) \o <<BytesQuote(b)>>

\* a value of the handler's variable data: bytes as received, str once decoded
Bytes(v) == [type |-> "bytes", val |-> v]
Str(v) == [type |-> "str", val |-> v]
NoData == [type |-> "unbound", val |-> <<>>]     \* before recv, and once the thread is gone

\* {value} inside an f-string
Format(x) == IF x.type = "bytes" THEN BytesRepr(x.val) ELSE x.val

\* ------------------------------------------------------------------------
\* re.search(pattern, contents, re.MULTILINE) for the patterns the handler
\* builds: "^", a body of literals, escapes and ".", "$"
\* ------------------------------------------------------------------------
Lit(ch) == [any |-> FALSE, ch |-> ch]
AnyChar == [any |-> TRUE, ch |-> "."]

\* the atoms of a pattern body
RECURSIVE Atoms(_)
Atoms(p) ==
    IF p = <<>> THEN <<>>
    ELSE IF p[1] = BSL /\ Len(p) >= 2
    THEN CASE p[2] = "n" -> <<Lit(NL)>> \o Atoms(SubSeq(p, 3, Len(p)))
           [] p[2] = "t" -> <<Lit("\t")>> \o Atoms(SubSeq(p, 3, Len(p)))
           [] p[2] = "r" -> <<Lit("\r")>> \o Atoms(SubSeq(p, 3, Len(p)))
           [] p[2] = "x" /\ Len(p) >= 4 /\ p[3] = "0" /\ p[4] = "0" ->
                <<Lit(NUL)>> \o Atoms(SubSeq(p, 5, Len(p)))
           [] OTHER -> <<Lit(p[2])>> \o Atoms(SubSeq(p, 3, Len(p)))
    ELSE IF p[1] = "."
    THEN <<AnyChar>> \o Atoms(Tail(p))
    ELSE <<Lit(p[1])>> \o Atoms(Tail(p))

AtomMatches(a, ch) == IF a.any THEN ch # NL ELSE ch = a.ch

\* "^" with re.MULTILINE: at the start of the text and after every newline
AtLineStart(text, i) == i = 1 \/ text[i - 1] = NL

\* "$" with re.MULTILINE: at the end of the text and before every newline
AtLineEnd(text, j) == j = Len(text) + 1 \/ text[j] = NL

MatchesAt(atoms, text, i) ==
    /\ i + Len(atoms) - 1 <= Len(text)
    /\ \A k \in 1..Len(atoms) : AtomMatches(atoms[k], text[i + k - 1])

\* pattern is "^" body "$"
re_search_multiline(pattern, text) ==
    LET atoms == Atoms(SubSeq(pattern, 2, Len(pattern) - 1))
    IN \E i \in 1..(Len(text) + 1) :
          /\ AtLineStart(text, i)
          /\ MatchesAt(atoms, text, i)
          /\ AtLineEnd(text, i + Len(atoms))

\* lines 134-136: the pattern, the search and the verdict
STRING_EXISTS == "STRING EXISTS\n"
STRING_NOT_FOUND == "STRING NOT FOUND\n"
AUTH_FAILED == "Authentication failed - HMAC mismatch."
GENERIC_FAILURE == "Could not handle your request pls try again later"

SearchPattern(data) == <<"^">> \o Format([type |-> data.type, val |-> re_escape(data.val)]) \o <<"$">>

SearchResponse(data, contents) ==
    IF re_search_multiline(SearchPattern(data), contents)
    THEN STRING_EXISTS ELSE STRING_NOT_FOUND

\* ------------------------------------------------------------------------
\* generate_hmac: SHA-256 over the PBKDF2-derived key followed by the message.
\* A digest byte is a token that names the hashed bytes and its position, so
\* two digests agree exactly when the hashed bytes agree.
\* ------------------------------------------------------------------------
TagLen == 32

RECURSIVE Flat(_)
Flat(b) == IF b = <<>> THEN "" ELSE b[1] \o "," \o Flat(Tail(b))

pbkdf2_derive(key) ==
    LET name == "kdf(" \o Flat(key) \o ")"
    IN [i \in 1..TagLen |-> name \o ToString(i)]

sha256(bytes) ==
    LET name == "sha(" \o Flat(bytes) \o ")"
    IN [i \in 1..TagLen |-> name \o ToString(i)]

generate_hmac(key, message) == sha256(pbkdf2_derive(key) \o message)

\* config: the pre-shared key, and psk.encode()
psk == <<"k">>
psk_bytes == psk

\* data[:32] and data[32:]
Min(a, b) == IF a <= b THEN a ELSE b
TagOf(frame) == SubSeq(frame, 1, Min(TagLen, Len(frame)))
MessageOffByOne(frame) == SubSeq(frame, TagLen, Len(frame))     \* data[31:]
MessageOf(frame) == SubSeq(frame, TagLen + 1, Len(frame))

HmacUnchecked(frame) == TRUE     \* the comparison left out
\* the comparison made byte by byte over the bytes the frame has
HmacMatchesZip(frame) ==
    SubSeq(generate_hmac(psk_bytes, MessageOf(frame)), 1, Len(TagOf(frame))) = TagOf(frame)
HmacMatches(frame) == generate_hmac(psk_bytes, MessageOf(frame)) = TagOf(frame)

\* message.decode('utf-8'): the bytes of the model's texts are ASCII, which
\* decode to the characters of the same value; a digest byte is not valid UTF-8
AsciiBytes ==
    { "a", "b", "e", "l", "A", "B", "E", "L", "x", "0", "n", ".", SP, NL, NUL, BSL, SQ, DQ }
Decodable(bytes) == Range(bytes) \subseteq AsciiBytes
Utf8Decode(bytes) == [i \in 1..Len(bytes) |-> bytes[i]]

\* line 123
ExtractQuery(message) == Str(Strip(RStripNul(Utf8Decode(message))))

\* ------------------------------------------------------------------------
\* Inputs: the dataset file as found on disk, and the frames clients send
\* ------------------------------------------------------------------------
Missing == <<"Missing">>

FileAlphaBeta == <<"a", "l", NL, "b", "e", NL>>     \* lines "al" and "be"
FileAlpha == <<"a", "l", NL>>                       \* the line "be" removed
Datasets == { FileAlphaBeta, FileAlpha }
DiskStates == Datasets \cup { Missing }

Payloads ==
    { <<"b", "e">>,                       \* a line of FileAlphaBeta only
      <<"a", "l", NL, "b", "e">>,         \* two lines joined by a newline
      <<"b", "e", NUL, SP, NUL>> }        \* padded with nulls and whitespace

Tagged(key, payload) == generate_hmac(key, payload) \o payload
FlipFirst(frame) == [frame EXCEPT ![1] = "flip(" \o @ \o ")"]

PlainFrames == Payloads
AuthFrames ==
    { Tagged(psk_bytes, p) : p \in Payloads }
    \cup { FlipFirst(Tagged(psk_bytes, <<"b", "e">>)) }     \* one bit of the tag flipped
    \cup { <<>> }                                           \* shorter than a tag

\* ------------------------------------------------------------------------
\* The companion client (client.py), configured with the server's secret
\* ------------------------------------------------------------------------
\* .hexdigest(): two hexadecimal digits, high then low, for every digest byte
HexDigest(digest) ==
    [i \in 1..(2 * Len(digest)) |->
        "hex(" \o digest[(i + 1) \div 2] \o ")" \o (IF i % 2 = 1 THEN "h" ELSE "l")]

\* str.encode('utf-8') of a text of ASCII characters
Utf8Encode(text) == [i \in 1..Len(text) |-> text[i]]

\* line 17: psk_hash = hashlib.sha256(psk.encode()).hexdigest()
psk_hash == HexDigest(sha256(Utf8Encode(psk)))

\* lines 50-52 with psk_auth on: the frame sent for the input typed
ClientFrame(client_input) == Utf8Encode(psk_hash \o client_input)

ClientFrames == { ClientFrame(p) : p \in Payloads }

\* ------------------------------------------------------------------------
\* State
\* ------------------------------------------------------------------------
VARIABLES
    psk_auth,          \* config: security_setting.psk_auth
    reread_on_query,   \* config: query_setting.reread_on_query
    offered,           \* the frame the clients send, in a run that fixes it; else empty
    disk,              \* the dataset file: its text, or Missing
    file_contents,     \* the module global: None or the cached text
    nreads,            \* how many times the dataset file was opened and read
    pc,                \* per connection: where its handler thread is
    data,              \* handler local: the frame (bytes), then the query (str)
    message,           \* handler local: data[32:], the bytes after the tag
    buf,               \* handler local: what file.read() returned, not yet stored
    contents,          \* handler local: the text the search runs on
    sent,              \* per connection: the messages sendall delivered
    broken,            \* per connection: a send failed, the peer is gone
    escaped,           \* per connection: an exception left the except block
    closed             \* per connection: conn.close() was called

vars == <<psk_auth, reread_on_query, offered, disk, file_contents, nreads, pc, data, message, buf,
          contents, sent, broken, escaped, closed>>

config == <<psk_auth, reread_on_query, offered>>

Frames == IF psk_auth THEN AuthFrames ELSE PlainFrames

\* what recv may return: the frame the run fixes, or any frame
Received == IF offered = {} THEN Frames ELSE offered

Init ==
    /\ psk_auth \in BOOLEAN
    /\ reread_on_query \in BOOLEAN
    /\ offered = {}
    /\ disk \in DiskStates
    /\ file_contents = None
    /\ nreads = 0
    /\ pc = [c \in Conns |-> "idle"]
    /\ data = [c \in Conns |-> NoData]
    /\ message = [c \in Conns |-> None]
    /\ buf = [c \in Conns |-> None]
    /\ contents = [c \in Conns |-> None]
    /\ sent = [c \in Conns |-> <<>>]
    /\ broken = [c \in Conns |-> FALSE]
    /\ escaped = [c \in Conns |-> FALSE]
    /\ closed = [c \in Conns |-> FALSE]

\* ------------------------------------------------------------------------
\* The environment
\* ------------------------------------------------------------------------
\* somebody rewrites, removes or restores the dataset file
ModifyDataset ==
    /\ \E d \in DiskStates \ {disk} : disk' = d
    /\ UNCHANGED <<config, file_contents, nreads, pc, data, message, buf, contents,
                   sent, broken, escaped, closed>>

\* conn.sendall(msg): delivered, or an exception because the peer is gone
SendOutcomes(gone) == IF gone THEN {FALSE} ELSE {TRUE, FALSE}

\* ------------------------------------------------------------------------
\* start_server: accept a connection and start its handler thread
\* ------------------------------------------------------------------------
\* the loop of lines 58-61 with the handler called in the loop itself: the
\* next accept waits for the handler's return
AcceptAfterReturn(c) ==
    /\ pc[c] = "idle"
    /\ \A b \in Conns : b < c => pc[b] = "done"
    /\ pc' = [pc EXCEPT ![c] = "recv"]
    /\ UNCHANGED <<config, disk, file_contents, nreads, data, message, buf, contents,
                   sent, broken, escaped, closed>>

Accept(c) ==
    /\ pc[c] = "idle"
    /\ \A b \in Conns : b < c => pc[b] # "idle"
    /\ pc' = [pc EXCEPT ![c] = "recv"]
    /\ UNCHANGED <<config, disk, file_contents, nreads, data, message, buf, contents,
                   sent, broken, escaped, closed>>

\* ------------------------------------------------------------------------
\* handle_client
\* ------------------------------------------------------------------------
\* lines 147-148: close the connection; the thread ends and its locals go
Finally(c) ==
    /\ closed' = [closed EXCEPT ![c] = TRUE]
    /\ pc' = [pc EXCEPT ![c] = "done"]
    /\ data' = [data EXCEPT ![c] = NoData]
    /\ message' = [message EXCEPT ![c] = None]
    /\ buf' = [buf EXCEPT ![c] = None]
    /\ contents' = [contents EXCEPT ![c] = None]

\* lines 143-148 with the close moved out of the finally block to the end of
\* the except block: a send that raises skips it
ExceptThenClose(c, delivered, gone) ==
    /\ \E ok \in SendOutcomes(gone) :
         /\ sent' = [sent EXCEPT ![c] = IF ok THEN Append(delivered, GENERIC_FAILURE)
                                              ELSE delivered]
         /\ broken' = [broken EXCEPT ![c] = ~ok]
         /\ escaped' = [escaped EXCEPT ![c] = ~ok]
         /\ closed' = [closed EXCEPT ![c] = ok]
    /\ pc' = [pc EXCEPT ![c] = "done"]
    /\ data' = [data EXCEPT ![c] = NoData]
    /\ message' = [message EXCEPT ![c] = None]
    /\ buf' = [buf EXCEPT ![c] = None]
    /\ contents' = [contents EXCEPT ![c] = None]

\* lines 143-148, entered with the messages delivered so far and whether the
\* peer is gone: send the generic message; if that send raises too, the
\* exception leaves the handler once the finally block has run
ExceptFinally(c, delivered, gone) ==
    /\ \E ok \in SendOutcomes(gone) :
         /\ sent' = [sent EXCEPT ![c] = IF ok THEN Append(delivered, GENERIC_FAILURE)
                                              ELSE delivered]
         /\ broken' = [broken EXCEPT ![c] = ~ok]
         /\ escaped' = [escaped EXCEPT ![c] = ~ok]
    /\ Finally(c)

\* lines 138-141 and 147-148: the response was delivered; close
ReturnFinally(c, delivered) ==
    /\ sent' = [sent EXCEPT ![c] = delivered]
    /\ UNCHANGED <<broken, escaped>>
    /\ Finally(c)

\* line 113: receive the frame, or an exception because the peer reset the
\* connection
Receive(c) ==
    /\ pc[c] = "recv"
    /\ \/ /\ pc' = [pc EXCEPT ![c] = IF psk_auth THEN "auth" ELSE "load"]
          /\ \E frame \in Received : data' = [data EXCEPT ![c] = Bytes(frame)]
          /\ UNCHANGED <<message, buf, contents, sent, broken, escaped, closed>>
       \/ ExceptFinally(c, sent[c], TRUE)
    /\ UNCHANGED <<config, disk, file_contents, nreads>>

\* lines 115-123: check the tag and extract the query, or send the failure
\* message and raise
Authenticate(c) ==
    /\ pc[c] = "auth"
    /\ IF ~HmacMatches(data[c].val)
       THEN \E ok \in SendOutcomes(broken[c]) :
               ExceptFinally(c, IF ok THEN Append(sent[c], AUTH_FAILED) ELSE sent[c], ~ok)
       ELSE IF ~Decodable(MessageOf(data[c].val))
       THEN ExceptFinally(c, sent[c], broken[c])
       ELSE /\ data' = [data EXCEPT ![c] = ExtractQuery(MessageOf(data[c].val))]
            /\ message' = [message EXCEPT ![c] = MessageOf(data[c].val)]
            /\ pc' = [pc EXCEPT ![c] = "load"]
            /\ UNCHANGED <<buf, contents, sent, broken, escaped, closed>>
    /\ UNCHANGED <<config, disk, file_contents, nreads>>

\* lines 127-129 with the text read kept in the global as well
RereadFileShared(c) ==
    /\ pc[c] = "load"
    /\ reread_on_query
    /\ IF disk = Missing
       THEN /\ ExceptFinally(c, sent[c], broken[c])
            /\ UNCHANGED <<nreads, file_contents>>
       ELSE /\ contents' = [contents EXCEPT ![c] = disk]
            /\ file_contents' = disk
            /\ nreads' = nreads + 1
            /\ pc' = [pc EXCEPT ![c] = "respond"]
            /\ UNCHANGED <<data, message, buf, sent, broken, escaped, closed>>
    /\ UNCHANGED <<config, disk>>

\* lines 127-129: reread_on_query, open the file and read it
RereadFile(c) ==
    /\ pc[c] = "load"
    /\ reread_on_query
    /\ IF disk = Missing
       THEN /\ ExceptFinally(c, sent[c], broken[c])
            /\ UNCHANGED nreads
       ELSE /\ contents' = [contents EXCEPT ![c] = disk]
            /\ nreads' = nreads + 1
            /\ pc' = [pc EXCEPT ![c] = "respond"]
            /\ UNCHANGED <<data, message, buf, sent, broken, escaped, closed>>
    /\ UNCHANGED <<config, disk, file_contents>>

\* read_file_once with the test of line 74 inverted
ReadOnceCheckInverted(c) ==
    /\ pc[c] = "load"
    /\ ~reread_on_query
    /\ pc' = [pc EXCEPT ![c] = IF file_contents # None THEN "rfo_read" ELSE "rfo_return"]
    /\ UNCHANGED <<config, disk, file_contents, nreads, data, message, buf, contents,
                   sent, broken, escaped, closed>>

\* read_file_once without the test of line 74: every call reads the file
ReadOnceCheckAlwaysReads(c) ==
    /\ pc[c] = "load"
    /\ ~reread_on_query
    /\ pc' = [pc EXCEPT ![c] = "rfo_read"]
    /\ UNCHANGED <<config, disk, file_contents, nreads, data, message, buf, contents,
                   sent, broken, escaped, closed>>

\* read_file_once with the return of line 77 moved into the if block: a call
\* that finds the global set returns nothing, and the search raises
ReadOnceCheckReturnsNothing(c) ==
    /\ pc[c] = "load"
    /\ ~reread_on_query
    /\ IF file_contents = None
       THEN /\ pc' = [pc EXCEPT ![c] = "rfo_read"]
            /\ UNCHANGED <<data, message, buf, contents, sent, broken, escaped, closed>>
       ELSE ExceptFinally(c, sent[c], broken[c])
    /\ UNCHANGED <<config, disk, file_contents, nreads>>

\* read_file_once, line 74: is file_contents None?
ReadOnceCheck(c) ==
    /\ pc[c] = "load"
    /\ ~reread_on_query
    /\ pc' = [pc EXCEPT ![c] = IF file_contents = None THEN "rfo_read" ELSE "rfo_return"]
    /\ UNCHANGED <<config, disk, file_contents, nreads, data, message, buf, contents,
                   sent, broken, escaped, closed>>

\* read_file_once with the error of open caught inside and an empty text
\* stored in its place
ReadOnceReadCachesEmpty(c) ==
    /\ pc[c] = "rfo_read"
    /\ IF disk = Missing
       THEN /\ file_contents' = <<>>
            /\ pc' = [pc EXCEPT ![c] = "rfo_return"]
            /\ UNCHANGED <<nreads, buf>>
       ELSE /\ buf' = [buf EXCEPT ![c] = disk]
            /\ nreads' = nreads + 1
            /\ pc' = [pc EXCEPT ![c] = "rfo_store"]
            /\ UNCHANGED file_contents
    /\ UNCHANGED <<config, disk, data, message, contents, sent, broken, escaped, closed>>

\* read_file_once, lines 75-76: open the file and read it
ReadOnceRead(c) ==
    /\ pc[c] = "rfo_read"
    /\ IF disk = Missing
       THEN /\ ExceptFinally(c, sent[c], broken[c])
            /\ UNCHANGED nreads
       ELSE /\ buf' = [buf EXCEPT ![c] = disk]
            /\ nreads' = nreads + 1
            /\ pc' = [pc EXCEPT ![c] = "rfo_store"]
            /\ UNCHANGED <<data, message, contents, sent, broken, escaped, closed>>
    /\ UNCHANGED <<config, disk, file_contents>>

\* read_file_once, line 76: store what was read in the global
ReadOnceStore(c) ==
    /\ pc[c] = "rfo_store"
    /\ file_contents' = buf[c]
    /\ buf' = [buf EXCEPT ![c] = None]
    /\ pc' = [pc EXCEPT ![c] = "rfo_return"]
    /\ UNCHANGED <<config, disk, nreads, data, message, contents, sent, broken, escaped,
                   closed>>

\* read_file_once, line 77, and line 131: return the global to the handler
ReadOnceReturn(c) ==
    /\ pc[c] = "rfo_return"
    /\ contents' = [contents EXCEPT ![c] = file_contents]
    /\ pc' = [pc EXCEPT ![c] = "respond"]
    /\ UNCHANGED <<config, disk, file_contents, nreads, data, message, buf, sent,
                   broken, escaped, closed>>

\* lines 134-138: search, and send the verdict
Respond(c) ==
    /\ pc[c] = "respond"
    /\ \E ok \in SendOutcomes(broken[c]) :
         IF ok
         THEN ReturnFinally(c, Append(sent[c], SearchResponse(data[c], contents[c])))
         ELSE ExceptFinally(c, sent[c], TRUE)
    /\ UNCHANGED <<config, disk, file_contents, nreads>>

Next ==
    \/ ModifyDataset
    \/ \E c \in Conns : Accept(c)
    \/ \E c \in Conns : Receive(c)
    \/ \E c \in Conns : Authenticate(c)
    \/ \E c \in Conns : RereadFile(c)
    \/ \E c \in Conns : ReadOnceCheck(c)
    \/ \E c \in Conns : ReadOnceRead(c)
    \/ \E c \in Conns : ReadOnceStore(c)
    \/ \E c \in Conns : ReadOnceReturn(c)
    \/ \E c \in Conns : Respond(c)

Spec == Init /\ [][Next]_vars

\* ------------------------------------------------------------------------
\* The same server with handler threads that keep being scheduled: a handler
\* whose receive has returned takes its next step sooner or later.  Nothing
\* is assumed of the clients, of the accept loop or of the dataset's editors.
\* The steps of a running handler (Authenticate to Respond) are the steps of
\* Next that move its position, and one of them is enabled wherever it is.
\* ------------------------------------------------------------------------
Positions == { "idle", "recv", "auth", "load", "rfo_read", "rfo_store", "rfo_return",
               "respond", "done" }

Running(c) == pc[c] \notin {"idle", "recv", "done"}

HandlerStep(c) ==
    /\ Running(c)
    /\ \E q \in Positions \ {pc[c]} : pc' = [pc EXCEPT ![c] = q]

\* likewise the steps that take a handler out of recv are those of Receive
ReceiveStep(c) ==
    /\ pc[c] = "recv"
    /\ \E q \in Positions \ {pc[c]} : pc' = [pc EXCEPT ![c] = q]

SpecFair == Init /\ [][Next]_vars /\ \A c \in Conns : WF_pc(HandlerStep(c))

\* ------------------------------------------------------------------------
\* A first client that connects and never sends anything: its handler stays
\* in recv for ever.  The accept loop keeps running, the other clients send
\* their frame (or reset the connection), and handler threads keep being
\* scheduled.
\* ------------------------------------------------------------------------
Others == Conns \ {1}

NextBlocked ==
    \/ ModifyDataset
    \/ \E c \in Conns : Accept(c)
    \/ \E c \in Others : Receive(c)
    \/ \E c \in Conns : Authenticate(c)
    \/ \E c \in Conns : RereadFile(c)
    \/ \E c \in Conns : ReadOnceCheck(c)
    \/ \E c \in Conns : ReadOnceRead(c)
    \/ \E c \in Conns : ReadOnceStore(c)
    \/ \E c \in Conns : ReadOnceReturn(c)
    \/ \E c \in Conns : Respond(c)

SpecBlocked ==
    /\ Init /\ [][NextBlocked]_vars
    /\ \A c \in Conns : WF_pc(Accept(c))
    /\ \A c \in Others : WF_pc(ReceiveStep(c))
    /\ \A c \in Conns : WF_pc(HandlerStep(c))

\* ------------------------------------------------------------------------
\* The same handlers with a dataset nobody touches
\* ------------------------------------------------------------------------
NextStable ==
    \/ \E c \in Conns : Accept(c)
    \/ \E c \in Conns : Receive(c)
    \/ \E c \in Conns : Authenticate(c)
    \/ \E c \in Conns : RereadFile(c)
    \/ \E c \in Conns : ReadOnceCheck(c)
    \/ \E c \in Conns : ReadOnceRead(c)
    \/ \E c \in Conns : ReadOnceStore(c)
    \/ \E c \in Conns : ReadOnceReturn(c)
    \/ \E c \in Conns : Respond(c)

SpecStable == Init /\ [][NextStable]_vars

\* ------------------------------------------------------------------------
\* Clients that come one after the other: a connection is accepted, and the
\* dataset modified, only while no handler is running
\* ------------------------------------------------------------------------
Quiet == \A c \in Conns : pc[c] \in {"idle", "done"}

NextSeq ==
    \/ Quiet /\ ModifyDataset
    \/ \E c \in Conns : Quiet /\ Accept(c)
    \/ \E c \in Conns : Receive(c)
    \/ \E c \in Conns : Authenticate(c)
    \/ \E c \in Conns : RereadFile(c)
    \/ \E c \in Conns : ReadOnceCheck(c)
    \/ \E c \in Conns : ReadOnceRead(c)
    \/ \E c \in Conns : ReadOnceStore(c)
    \/ \E c \in Conns : ReadOnceReturn(c)
    \/ \E c \in Conns : Respond(c)

SpecSeq == Init /\ [][NextSeq]_vars

\* ------------------------------------------------------------------------
\* Clients that come one after the other and all send the same frame; the
\* dataset is left alone from the arrival of the last but one
\* ------------------------------------------------------------------------
First == NumConns - 1
Second == NumConns

InitTwice ==
    /\ psk_auth \in BOOLEAN
    /\ reread_on_query \in BOOLEAN
    /\ \E f \in Frames : offered = {f}
    /\ disk \in DiskStates
    /\ file_contents = None
    /\ nreads = 0
    /\ pc = [c \in Conns |-> "idle"]
    /\ data = [c \in Conns |-> NoData]
    /\ message = [c \in Conns |-> None]
    /\ buf = [c \in Conns |-> None]
    /\ contents = [c \in Conns |-> None]
    /\ sent = [c \in Conns |-> <<>>]
    /\ broken = [c \in Conns |-> FALSE]
    /\ escaped = [c \in Conns |-> FALSE]
    /\ closed = [c \in Conns |-> FALSE]

NextTwice ==
    \/ Quiet /\ pc[First] = "idle" /\ ModifyDataset
    \/ \E c \in Conns : Quiet /\ Accept(c)
    \/ \E c \in Conns : Receive(c)
    \/ \E c \in Conns : Authenticate(c)
    \/ \E c \in Conns : RereadFile(c)
    \/ \E c \in Conns : ReadOnceCheck(c)
    \/ \E c \in Conns : ReadOnceRead(c)
    \/ \E c \in Conns : ReadOnceStore(c)
    \/ \E c \in Conns : ReadOnceReturn(c)
    \/ \E c \in Conns : Respond(c)

SpecTwice == InitTwice /\ [][NextTwice]_vars

\* ------------------------------------------------------------------------
\* One authenticated query, from the frame received to the response, for
\* every payload and every dataset text within the bounds
\* ------------------------------------------------------------------------
QueryAlphabet == { "b", "B", ".", NL, NUL }
FileAlphabet == { "b", NL, NUL }

Texts(alphabet, n) == UNION { [1..k -> alphabet] : k \in 0..n }

InitQuery ==
    /\ psk_auth = TRUE
    /\ reread_on_query \in BOOLEAN
    /\ offered = {}
    /\ disk \in Texts(FileAlphabet, MaxFileLen)
    /\ file_contents = None
    /\ nreads = 0
    /\ pc = [c \in Conns |-> IF c = 1 THEN "auth" ELSE "idle"]
    /\ \E p \in Texts(QueryAlphabet, MaxQueryLen) :
          data = [c \in Conns |-> IF c = 1 THEN Bytes(Tagged(psk_bytes, p)) ELSE NoData]
    /\ message = [c \in Conns |-> None]
    /\ buf = [c \in Conns |-> None]
    /\ contents = [c \in Conns |-> None]
    /\ sent = [c \in Conns |-> <<>>]
    /\ broken = [c \in Conns |-> FALSE]
    /\ escaped = [c \in Conns |-> FALSE]
    /\ closed = [c \in Conns |-> FALSE]

NextQuery ==
    \/ Authenticate(1)
    \/ RereadFile(1)
    \/ ReadOnceCheck(1)
    \/ ReadOnceRead(1)
    \/ ReadOnceStore(1)
    \/ ReadOnceReturn(1)
    \/ Respond(1)

SpecQuery == InitQuery /\ [][NextQuery]_vars

\* ------------------------------------------------------------------------
\* One client of a server that authenticates, for every frame of a family:
\* the well-tagged frames cut after any number of bytes (whole included),
\* the payloads sent without a tag, and the frames of the companion client
\* ------------------------------------------------------------------------
Prefixes(frame) == { SubSeq(frame, 1, k) : k \in 0..Len(frame) }

ProbeFrames ==
    UNION { Prefixes(Tagged(psk_bytes, p)) : p \in Payloads }
    \cup Payloads
    \cup ClientFrames

InitAuth ==
    /\ psk_auth = TRUE
    /\ reread_on_query \in BOOLEAN
    /\ \E f \in ProbeFrames : offered = {f}
    /\ disk \in DiskStates
    /\ file_contents = None
    /\ nreads = 0
    /\ pc = [c \in Conns |-> IF c = 1 THEN "recv" ELSE "idle"]
    /\ data = [c \in Conns |-> NoData]
    /\ message = [c \in Conns |-> None]
    /\ buf = [c \in Conns |-> None]
    /\ contents = [c \in Conns |-> None]
    /\ sent = [c \in Conns |-> <<>>]
    /\ broken = [c \in Conns |-> FALSE]
    /\ escaped = [c \in Conns |-> FALSE]
    /\ closed = [c \in Conns |-> FALSE]

NextAuth ==
    \/ Receive(1)
    \/ Authenticate(1)
    \/ RereadFile(1)
    \/ ReadOnceCheck(1)
    \/ ReadOnceRead(1)
    \/ ReadOnceStore(1)
    \/ ReadOnceReturn(1)
    \/ Respond(1)

SpecAuth == InitAuth /\ [][NextAuth]_vars

\* ========================================================================
\* Properties
\* ========================================================================
Verdicts == { STRING_EXISTS, STRING_NOT_FOUND }
Responses == Verdicts \cup { AUTH_FAILED, GENERIC_FAILURE }

\* the lines of a text: what lies between its newlines
RECURSIVE LinesOf(_)
LinesOf(text) ==
    IF NL \notin Range(text) THEN { text }
    ELSE LET i == CHOOSE i \in 1..Len(text) :
                     text[i] = NL /\ \A j \in 1..(i - 1) : text[j] # NL
         IN { SubSeq(text, 1, i - 1) } \cup LinesOf(SubSeq(text, i + 1, Len(text)))

NoSurroundingWhitespace(t) == t = <<>> \/ (t[1] \notin Whitespace /\ t[Len(t)] \notin Whitespace)

\* this step is connection c's handler answering with a verdict that the peer receives
Answers(c) == pc[c] = "respond" /\ pc'[c] = "done" /\ ~broken'[c]

\* the frame starts with the digest of what follows the tag
WellTagged(frame) ==
    /\ Len(frame) >= TagLen
    /\ SubSeq(frame, 1, TagLen)
         = generate_hmac(psk_bytes, SubSeq(frame, TagLen + 1, Len(frame)))

\* C1: every handled connection gets exactly one response message, one of the
\* four fixed strings, and no connection ever gets two.
C1_ExactlyOneResponse ==
    \A c \in Conns :
       /\ Len(sent[c]) <= 1
       /\ (closed[c] /\ ~broken[c]) => (Len(sent[c]) = 1 /\ sent[c][1] \in Responses)

\* C2: with reread_on_query off the dataset file is read from disk at most
\* once, however many handlers race on the cold cache.
C2_SingleRead == ~reread_on_query => nreads <= 1

\* C3: with psk_auth off, a frame that is a non-empty line of the dataset is
\* answered STRING EXISTS.
C3_PlainLineFound ==
    [][\A c \in Conns :
          (/\ ~psk_auth
           /\ Answers(c)
           /\ data[c].val # <<>>
           /\ data[c].val \in LinesOf(contents[c]))
          => sent'[c] = <<STRING_EXISTS>>]_vars

\* C4 as stated: with psk_auth on, a well-tagged frame passes the check, and
\* when its payload S is a non-empty line of the dataset without surrounding
\* whitespace the answer is STRING EXISTS.
C4_TaggedLineFound ==
    [][\A c \in Conns :
          /\ (psk_auth /\ pc[c] = "auth" /\ WellTagged(data[c].val) /\ pc'[c] # "auth")
             => (/\ pc'[c] = "load"
                 /\ message'[c] = SubSeq(data[c].val, TagLen + 1, Len(data[c].val)))
          /\ (/\ psk_auth
              /\ Answers(c)
              /\ message[c] # <<>>
              /\ NoSurroundingWhitespace(message[c])
              /\ message[c] \in LinesOf(contents[c]))
             => sent'[c] = <<STRING_EXISTS>>]_vars

\* C4 amended: the same, for payloads S that do not end in a null byte either.
C4_TaggedCleanLineFound ==
    [][\A c \in Conns :
          /\ (psk_auth /\ pc[c] = "auth" /\ WellTagged(data[c].val) /\ pc'[c] # "auth")
             => (/\ pc'[c] = "load"
                 /\ message'[c] = SubSeq(data[c].val, TagLen + 1, Len(data[c].val)))
          /\ (/\ psk_auth
              /\ Answers(c)
              /\ message[c] # <<>>
              /\ NoSurroundingWhitespace(message[c])
              /\ message[c][Len(message[c])] # NUL
              /\ message[c] \in LinesOf(contents[c]))
             => sent'[c] = <<STRING_EXISTS>>]_vars

C4_Witness ==
    /\ psk_auth
    /\ disk = <<"b", "b", NL>>
    /\ pc[1] = "done"
    /\ sent[1] = <<STRING_EXISTS>>

\* C5: with psk_auth on, a frame whose tag is not the digest of its payload is
\* answered with the authentication failure and its handler ends without a
\* search: no file read, the cache untouched, no verdict sent.
C5_BadTagNeverSearches ==
    [][\A c \in Conns :
          (psk_auth /\ pc[c] = "auth" /\ ~WellTagged(data[c].val) /\ pc'[c] # "auth")
          => /\ pc'[c] = "done"
             /\ nreads' = nreads
             /\ file_contents' = file_contents
             /\ Range(sent'[c]) \cap Verdicts = {}
             /\ sent'[c] # <<>> => sent'[c][1] = AUTH_FAILED
             /\ sent'[c] = <<>> => broken'[c]]_vars

C5_Witness ==
    /\ psk_auth
    /\ \E c \in Conns :
          /\ pc[c] = "done"
          /\ sent[c] # <<>>
          /\ sent[c][1] = AUTH_FAILED
          /\ nreads = 0
          /\ file_contents = None

\* C6: a query that contains a line terminator is answered STRING NOT FOUND.
C6_NewlineQueryNotFound ==
    [][\A c \in Conns :
          (Answers(c) /\ NL \in Range(data[c].val))
          => sent'[c] = <<STRING_NOT_FOUND>>]_vars

\* C7: for a non-empty query string without a line terminator the search step
\* answers STRING EXISTS exactly when the query is a line of the contents, and
\* STRING NOT FOUND otherwise.
C7_ExactLineMatch ==
    [][\A c \in Conns :
          (/\ Answers(c)
           /\ data[c].type = "str"
           /\ data[c].val # <<>>
           /\ NL \notin Range(data[c].val))
          => /\ sent'[c] \in { <<STRING_EXISTS>>, <<STRING_NOT_FOUND>> }
             /\ sent'[c] = <<STRING_EXISTS>> <=> data[c].val \in LinesOf(contents[c])]_vars

C7_Witness ==
    /\ disk = <<"b", "b", NL>>
    /\ pc[1] = "done"
    /\ sent[1] = <<STRING_NOT_FOUND>>

\* C8: in snapshot mode file_contents, once it is not None, never changes.
C8_CacheWrittenOnce ==
    [][(~reread_on_query /\ file_contents # None) => file_contents' = file_contents]_vars

\* C9: in snapshot mode, with the file unchanged, read_file_once returns the
\* whole dataset to every caller, never None, and every verdict is the one
\* the search gives on the whole dataset.
C9_CompleteLoad ==
    [][\A c \in Conns :
          /\ (~reread_on_query /\ pc[c] = "rfo_return" /\ pc'[c] = "respond")
             => (contents'[c] # None /\ contents'[c] = disk)
          /\ (~reread_on_query /\ Answers(c))
             => sent'[c] = <<SearchResponse(data[c], disk)>>]_vars

C9_Witness ==
    /\ ~reread_on_query
    /\ nreads = 2
    /\ pc[1] = "respond" /\ contents[1] = disk
    /\ pc[2] = "respond" /\ contents[2] = disk

\* C10: for queries handled one after the other, with reread_on_query on a
\* verdict is the one the file on disk gives now; with it off the cache, once
\* loaded, is never replaced and every verdict is the one the cache gives.
C10_ModificationVisibility ==
    [][/\ (~reread_on_query /\ file_contents # None) => file_contents' = file_contents
       /\ \A c \in Conns :
             Answers(c)
             => /\ reread_on_query => sent'[c] = <<SearchResponse(data[c], disk)>>
                /\ ~reread_on_query =>
                      /\ file_contents # None
                      /\ sent'[c] = <<SearchResponse(data[c], file_contents)>>]_vars

C10_Witness ==
    /\ ~reread_on_query
    /\ \E c \in Conns : pc[c] = "done" /\ Range(sent[c]) \cap Verdicts # {}
    /\ \E c \in Conns : pc[c] = "respond" /\ contents[c] # disk /\ disk # Missing

\* C11: the connection of every handler that has terminated is closed,
\* whichever way the handler went (verdict sent, authentication failure,
\* exception caught, exception raised again while the failure was being
\* reported), and a handler whose receive has returned does terminate with
\* its connection closed.
C11_AlwaysClosed ==
    /\ [](\A c \in Conns : pc[c] = "done" => closed[c])
    /\ \A c \in Conns : Running(c) ~> (pc[c] = "done" /\ closed[c])

\* a handler left by the exception of the second send, and one that sent its
\* verdict: both connections are closed
C11_Witness ==
    /\ pc[1] = "done" /\ escaped[1] /\ closed[1]
    /\ pc[2] = "done" /\ sent[2] \in { <<STRING_EXISTS>>, <<STRING_NOT_FOUND>> } /\ closed[2]

\* C12: no exception leaves the handler: every handler that has terminated
\* returned normally, having caught whatever was raised while receiving,
\* searching or sending.
C12_NeverPropagates == \A c \in Conns : pc[c] = "done" => ~escaped[c]

C14_ClientFrameAnswered ==
    (/\ psk_auth /\ offered # {} /\ offered \subseteq ClientFrames
     /\ disk \in Datasets /\ pc[1] = "done" /\ ~broken[1])
    => (Len(sent[1]) = 1 /\ sent[1][1] \in Verdicts)

C16_NotSerialized ==
    /\ <>[](pc[1] = "recv")
    /\ \A c \in Others : (pc[1] = "recv") ~> (pc[c] = "done" /\ closed[c])

\* the first handler still in recv, a later one answered and closed
C16_Witness ==
    /\ pc[1] = "recv"
    /\ \E c \in Others : pc[c] = "done" /\ closed[c] /\ sent[c] = <<STRING_EXISTS>>

\* C17: with authentication on and a well-tagged frame, the query the
\* handler extracts is fully trimmed, whatever null bytes and whitespace
\* follow the text of the payload: it does not end with a null byte and
\* neither begins nor ends with whitespace.
C17_QueryFullyTrimmed ==
    [][\A c \in Conns :
         (psk_auth /\ pc[c] = "auth" /\ pc'[c] = "load")
         => \/ data'[c].val = <<>>
            \/ /\ data'[c].val[Len(data'[c].val)] # NUL
               /\ NoSurroundingWhitespace(data'[c].val)]_vars

\* C18: a handler that finds the dataset file missing when it opens it ends
\* there: its client is sent the generic failure message and nothing else,
\* its connection is closed, no other connection is touched, no read is
\* counted and file_contents is left as it was.  Without reread_on_query
\* file_contents is therefore None or a whole text of the file, never the
\* trace of a failed read, and a query answered later is searched in a whole
\* text.
ReadFails(c) ==
    /\ disk = Missing
    /\ pc[c] = "rfo_read" \/ (pc[c] = "load" /\ reread_on_query)
    /\ pc'[c] # pc[c]

C18_ReadErrorContained ==
    [][/\ \A c \in Conns :
            ReadFails(c)
            => /\ pc'[c] = "done" /\ closed'[c]
               /\ file_contents' = file_contents /\ nreads' = nreads
               /\ sent'[c] \in { sent[c], Append(sent[c], GENERIC_FAILURE) }
               /\ ~broken'[c] => sent'[c] = Append(sent[c], GENERIC_FAILURE)
               /\ \A d \in Conns \ {c} :
                     sent'[d] = sent[d] /\ pc'[d] = pc[d] /\ closed'[d] = closed[d]
       /\ ~reread_on_query
            => /\ file_contents \in Datasets \cup {None}
               /\ \A c \in Conns : pc[c] = "respond" => contents[c] \in Datasets]_vars

\* the first query found the file missing and was sent the generic message;
\* the file is back and the second query got the whole of it, the one read
C18_Witness ==
    /\ ~psk_auth /\ ~reread_on_query
    /\ pc[1] = "done" /\ sent[1] = <<GENERIC_FAILURE>>
    /\ pc[2] = "respond" /\ contents[2] = FileAlphaBeta
    /\ file_contents = FileAlphaBeta /\ disk = FileAlphaBeta /\ nreads = 1

\* C19: with reread_on_query, a query that reaches the search makes one read
\* of the file, its own, and is answered from the text that read gave it;
\* the file is read nowhere else, read_file_once is never entered and
\* file_contents is None in every state.
InReadOnce(c) == pc[c] \in {"rfo_read", "rfo_store", "rfo_return"}

C19_RereadIsLocal ==
    [][reread_on_query
       => /\ file_contents = None /\ file_contents' = None
          /\ \A c \in Conns : ~InReadOnce(c)
          /\ \A c \in Conns :
                (pc[c] = "load" /\ pc'[c] = "respond")
                => (nreads' = nreads + 1 /\ contents'[c] = disk)
          /\ nreads' # nreads => \E c \in Conns : pc[c] = "load" /\ pc'[c] = "respond"
          /\ \A c \in Conns :
                pc[c] = "respond"
                => /\ contents'[c] \in { contents[c], None }
                   /\ Answers(c) => sent'[c] = <<SearchResponse(data[c], contents[c])>>]_vars

\* two handlers about to answer, each from its own read, the file rewritten
\* between the two reads
C19_Witness ==
    /\ reread_on_query /\ file_contents = None /\ nreads = 2
    /\ pc[1] = "respond" /\ pc[2] = "respond"
    /\ contents[1] # contents[2]

====
